---- MODULE Spec2Model ----
(***************************************************************************)
(* A model of sample1.cpp: the not_null wrapper, the print-and-exit        *)
(* database helpers, the run loop with its reset guard, the Transaction    *)
(* guard, and the main1 program, over an abstract embedded SQL engine.     *)
(***************************************************************************)
EXTENDS Integers, Sequences, FiniteSets, TLC

(***************************************************************************)
(* Bounds of the model.                                                    *)
(***************************************************************************)
MaxPtr == 2
NumObjs == 2

(***************************************************************************)
(* not_null<T>  (sample1.cpp 25-95)                                        *)
(***************************************************************************)
nullptr == 0
Ptrs == nullptr..MaxPtr
Objs == 1..NumObjs

VARIABLES
  live,     \* live[o]: the not_null object o exists (its constructor completed)
  ptr_,     \* ptr_[o]: the member ptr_ of object o
  thrown,   \* what the last not_null operation threw: "none" or "Ensure failed"
  lastOp    \* the last not_null operation: [op, obj, arg]

nnVars == <<live, ptr_, thrown, lastOp>>

(***************************************************************************)
(* The process and the engine behind the sqlite3 C interface.              *)
(***************************************************************************)
VARIABLES
  proc,        \* "running", "exit_failure" (std::exit), "terminated"
               \* (uncaught throw) or "returned" (main1 returned)
  harness,     \* who calls: "not_null", "guards", "client" or "main1"
  lastCall,    \* main1's last helper call: [helper, rc, printed, how]
  anyFailure,  \* the engine has reported a non-success result code to main1
  misuse,      \* a handle was used after its release
  conn,        \* the sqlite3 handle: "none", "open" or "closed"
  closes,      \* the sqlite3_close calls: what each returned and how many
               \* statements were still prepared
  inTxn,       \* the engine is inside BEGIN ... COMMIT/ROLLBACK
  table,       \* the table things: NoTable, or its rows in id order
  saved        \* the table as last committed

procVars == <<proc, harness, lastCall, anyFailure, misuse>>
engVars == <<conn, closes, inTxn, table, saved>>

(***************************************************************************)
(* Transaction guards  (sample1.cpp 256-276)                               *)
(***************************************************************************)
VARIABLES
  tstate,        \* tstate[g]: "unborn", "live" or "dead"
  _db,           \* _db[g]: the member _db of guard g
  ctorKind,      \* how g was constructed: "none", "db" or "move"
  root,          \* the guard whose constructor issued g's BEGIN
  movedFrom,     \* g was the source of a move construction
  commitCalled,  \* commit() was called on g
  issued,        \* issued[g]: what g's constructor, commit() and destructor issued
  ended          \* ended[r]: COMMITs and ROLLBACKs issued for the BEGIN of root r

txVars == <<tstate, _db, ctorKind, root, movedFrom, commitCalled, issued, ended>>

(***************************************************************************)
(* Prepared statements, the run loop and the main1 program.                *)
(***************************************************************************)
VARIABLES
  stmtState,      \* stmtState[s]: "none", "prepared" or "finalized"
  finalizeCount,  \* finalizeCount[s]: sqlite3_finalize calls on s
  bound,          \* bound[i]: the value bound to parameter i of the INSERT
  cursor,         \* cursor[s]: rows s has yielded since its last reset
  done,           \* done[s]: s has run to completion since its last reset
  rpc,            \* where run is: "idle", "loop" or "exit"
  rstmt,          \* the statement run was given
  rcb,            \* the callback run was given ("none": an empty std::function)
  rhist,          \* what happened in this call of run
  out,            \* what the callbacks have read, row by row
  pc              \* main1: the index of its next step (0: no program)

stVars == <<stmtState, finalizeCount, bound, cursor, done>>
runVars == <<rpc, rstmt, rcb, rhist, out>>

vars == <<nnVars, procVars, engVars, txVars, stVars, runVars, pc>>

nnOthers == <<procVars, engVars, txVars, stVars, runVars, pc>>
txOthers == <<nnVars, stVars, runVars>>

\* void Ensure(bool flag) const { if(not flag) throw "Ensure failed" ;}
Ensure(flag) == IF ~flag THEN "Ensure failed" ELSE "none"

\* A not_null that never looks at its pointer.
ensure_invariant_nocheck(p) == "none"

\* void ensure_invariant() const { Ensure(ptr_ != nullptr); }
ensure_invariant(p) == Ensure(p # nullptr)

\* T get() const { return ptr_; }
get(o) == ptr_[o]

NNInit ==
  /\ live = [o \in Objs |-> FALSE]
  /\ ptr_ = [o \in Objs |-> nullptr]
  /\ thrown = "none"
  /\ lastOp = [op |-> "none", obj |-> 0, arg |-> nullptr]

\* not_null(T t) : ptr_(t) { ensure_invariant(); }
\* A constructor that throws leaves no object behind.
not_null_ctor(o, t) ==
  /\ ~live[o]
  /\ thrown' = ensure_invariant(t)
  /\ live' = [live EXCEPT ![o] = (ensure_invariant(t) = "none")]
  /\ ptr_' = [ptr_ EXCEPT ![o] = IF ensure_invariant(t) = "none" THEN t ELSE @]
  /\ lastOp' = [op |-> "ctor", obj |-> o, arg |-> t]
  /\ UNCHANGED nnOthers

\* not_null& operator=(const T& t) { ptr_ = t; ensure_invariant(); return *this; }
\* The member is written before the check; the caller catches the error and
\* the object lives on.
assign_T(o, t) ==
  /\ live[o]
  /\ ptr_' = [ptr_ EXCEPT ![o] = t]
  /\ thrown' = ensure_invariant(t)
  /\ live' = live
  /\ UNCHANGED nnOthers
  /\ lastOp' = [op |-> "assign_T", obj |-> o, arg |-> t]

\* not_null(const not_null& other) = default;
copy_ctor(o, p) ==
  /\ ~live[o] /\ live[p]
  /\ ptr_' = [ptr_ EXCEPT ![o] = ptr_[p]]
  /\ live' = [live EXCEPT ![o] = TRUE]
  /\ thrown' = "none"
  /\ UNCHANGED nnOthers
  /\ lastOp' = [op |-> "copy_ctor", obj |-> o, arg |-> ptr_[p]]

\* not_null& operator=(const not_null& other) = default;
copy_assign(o, p) ==
  /\ live[o] /\ live[p]
  /\ ptr_' = [ptr_ EXCEPT ![o] = ptr_[p]]
  /\ thrown' = "none"
  /\ live' = live
  /\ UNCHANGED nnOthers
  /\ lastOp' = [op |-> "copy_assign", obj |-> o, arg |-> ptr_[p]]

\* template <typename U> not_null& operator=(const not_null<U>& other)
\* { ptr_ = other.get(); return *this; }
conv_assign(o, p) ==
  /\ live[o] /\ live[p]
  /\ ptr_' = [ptr_ EXCEPT ![o] = get(p)]
  /\ thrown' = "none"
  /\ live' = live
  /\ UNCHANGED nnOthers
  /\ lastOp' = [op |-> "conv_assign", obj |-> o, arg |-> get(p)]

\* template <typename U> not_null(const not_null<U>& other) { *this = other; }
conv_ctor(o, p) ==
  /\ ~live[o] /\ live[p]
  /\ ptr_' = [ptr_ EXCEPT ![o] = get(p)]
  /\ live' = [live EXCEPT ![o] = TRUE]
  /\ thrown' = "none"
  /\ UNCHANGED nnOthers
  /\ lastOp' = [op |-> "conv_ctor", obj |-> o, arg |-> get(p)]

\* The implicit destructor: the object's lifetime ends.
not_null_dtor(o) ==
  /\ live[o]
  /\ live' = [live EXCEPT ![o] = FALSE]
  /\ ptr_' = [ptr_ EXCEPT ![o] = nullptr]
  /\ thrown' = "none"
  /\ lastOp' = [op |-> "dtor", obj |-> o, arg |-> nullptr]
  /\ UNCHANGED nnOthers

NNNext ==
  \/ \E o \in Objs, t \in Ptrs : not_null_ctor(o, t)
  \/ \E o \in Objs, t \in Ptrs : assign_T(o, t)
  \/ \E o, p \in Objs : copy_ctor(o, p)
  \/ \E o, p \in Objs : copy_assign(o, p)
  \/ \E o, p \in Objs : conv_ctor(o, p)
  \/ \E o, p \in Objs : conv_assign(o, p)
  \/ \E o \in Objs : not_null_dtor(o)

(***************************************************************************)
(* Values.  A C++ value handed to parameter(), and a value the engine      *)
(* stores, is a typed cell; a text is its sequence of (non-zero) bytes, a  *)
(* double is named by a number.                                            *)
(***************************************************************************)
MaxLen == 1

Null == [type |-> "null", i |-> 0, f |-> 0, t |-> <<>>]
IntCell(n) == [type |-> "int", i |-> n, f |-> 0, t |-> <<>>]
FloatCell(d) == [type |-> "float", i |-> 0, f |-> d, t |-> <<>>]
TextCell(t) == [type |-> "text", i |-> 0, f |-> 0, t |-> t]

BeginSql == "BEGIN TRANSACTION;"
CommitSql == "COMMIT TRANSACTION;"
RollbackSql == "ROLLBACK TRANSACTION;"
CreateSql == "CREATE TABLE things (id INTEGER PRIMARY KEY, name TEXT,value REAL);"

NUL == 0
Chars == {97}
Texts == UNION {[1..n -> Chars] : n \in 0..MaxLen}
Doubles == {0, 1}
Ids == {0, 1, 2}

\* "first" and "second", the texts main1 binds
text_first == <<102, 105, 114, 115, 116>>
text_second == <<115, 101, 99, 111, 110, 100>>

(***************************************************************************)
(* Who calls the helpers.  main1 is a fixed sequence of calls; the other   *)
(* harnesses call in any order.                                            *)
(***************************************************************************)
NumGuards == 3
Guards == 1..NumGuards
Stmts == {"add_thing", "stmt"}
Params == 1..3

Ins(op, s, i, v, g, h, cb) ==
  [op |-> op, s |-> s, i |-> i, v |-> v, g |-> g, h |-> h, cb |-> cb]

OpenDb == Ins("open_database", "", 0, Null, 0, 0, "none")
Exec(sql) == Ins("execute", sql, 0, Null, 0, 0, "none")
Prepare(s) == Ins("create_statement", s, 0, Null, 0, 0, "none")
Param(i, v) == Ins("parameter", "add_thing", i, v, 0, 0, "none")
Run(s, cb) == Ins("run", s, 0, Null, 0, 0, cb)
TxnCtor(g) == Ins("Transaction", "", 0, Null, g, 0, "none")
TxnCommit(g) == Ins("commit", "", 0, Null, g, 0, "none")
TxnDtor(g) == Ins("~Transaction", "", 0, Null, g, 0, "none")
TxnMove(h, g) == Ins("Transaction&&", "", 0, Null, g, h, "none")
Dtor(local) == Ins("~unique_ptr", local, 0, Null, 0, 0, "none")
ReturnMain == Ins("return", "", 0, Null, 0, 0, "none")

Reverse(q) == [k \in 1..Len(q) |-> q[Len(q) + 1 - k]]

\* statement create_things2(not_null<sqlite3*> db): its calls, then the
\* destruction of its local transaction (insert_thing is moved out).
create_things2 ==
  << TxnCtor(1), Exec(CreateSql), Prepare("add_thing"),
     Param(1, IntCell(0)), Param(2, TextCell(<<>>)), Param(3, FloatCell(0)),
     Run("add_thing", "none"), TxnCommit(1), TxnDtor(1) >>

\* auto db, auto add_thing, auto stmt: the locals of main1 as declared
main1_locals == <<"db", "add_thing", "stmt">>

\* Locals destroyed in the order of their declaration instead.
main1_unwind_as_declared == main1_locals

\* at the closing brace of main1 its locals are destroyed in reverse order
main1_unwind == Reverse(main1_locals)

main1 ==
  <<OpenDb>> \o create_things2 \o
  << TxnCtor(2), Param(1, IntCell(1)), Param(2, TextCell(text_first)),
     Param(3, TextCell(text_second)), Run("add_thing", "none"), TxnCommit(2),
     TxnDtor(2), Prepare("stmt"), Run("stmt", "dump_current_row"),
     Run("stmt", "print_thing") >> \o
  [k \in 1..Len(main1_unwind) |-> Dtor(main1_unwind[k])] \o <<ReturnMain>>

GuardInstrs ==
  {TxnCtor(g) : g \in Guards} \cup {TxnCommit(g) : g \in Guards} \cup
  {TxnDtor(g) : g \in Guards} \cup {TxnMove(h, g) : h, g \in Guards}

\* A client of the helpers: it binds the values main1's kinds of call bind
\* (an integer id, a text name, a double or a text value), runs the INSERT
\* and the SELECT, and wraps work in one Transaction.
ClientInstrs ==
  {Param(1, IntCell(n)) : n \in Ids} \cup
  {Param(2, TextCell(t)) : t \in Texts} \cup
  {Param(3, FloatCell(d)) : d \in Doubles} \cup
  {Param(3, TextCell(text_second))} \cup
  {Run("add_thing", "none"), Run("stmt", "none"), Run("stmt", "read_thing")} \cup
  {TxnCtor(1), TxnCommit(1), TxnDtor(1)}

Callable ==
  CASE harness = "guards" -> GuardInstrs
    [] harness = "client" -> ClientInstrs
    [] harness = "main1" -> IF pc \in 1..Len(main1) THEN {main1[pc]} ELSE {}
    [] OTHER -> {}

\* The call ins is the caller's next one, and no run is under way.
Calls(ins, op) == proc = "running" /\ rpc = "idle" /\ ins.op = op

Advance == pc' = IF harness = "main1" THEN pc + 1 ELSE pc

(***************************************************************************)
(* The engine: sqlite3_exec on the statements the program issues.  What    *)
(* the engine answers is not the program's choice: a statement the engine  *)
(* can accept may still fail (I/O, memory), one it cannot accept fails.    *)
(***************************************************************************)
dbptr == nullptr + 1

sql_accepted(sql) ==
  CASE sql = BeginSql -> ~inTxn
    [] sql = CommitSql -> inTxn
    [] sql = RollbackSql -> inTxn
    [] sql = CreateSql -> ~table.exists
    [] OTHER -> FALSE

sqlite3_exec_rcs(sql) ==
  IF conn # "open" THEN {"SQLITE_MISUSE"}
  ELSE IF sql_accepted(sql) THEN {"SQLITE_OK", "SQLITE_IOERR"}
  ELSE {"SQLITE_ERROR"}

sqlite3_exec(sql, rc) ==
  /\ misuse' = (misuse \/ conn # "open")
  /\ UNCHANGED <<conn, closes>>
  /\ IF rc # "SQLITE_OK" THEN UNCHANGED <<inTxn, table, saved>>
     ELSE CASE sql = BeginSql -> inTxn' = TRUE /\ UNCHANGED <<table, saved>>
            [] sql = CommitSql -> inTxn' = FALSE /\ saved' = table /\ table' = table
            [] sql = RollbackSql -> inTxn' = FALSE /\ table' = saved /\ saved' = saved
            [] sql = CreateSql ->
                 /\ table' = [exists |-> TRUE, rows |-> <<>>]
                 /\ saved' = IF inTxn THEN saved ELSE table'
                 /\ inTxn' = inTxn

(***************************************************************************)
(* How a helper call ends: it returns, it prints and calls                 *)
(* std::exit(EXIT_FAILURE), or it throws.  std::exit runs no destructor of *)
(* an automatic object; a throw nobody catches ends in std::terminate.     *)
(***************************************************************************)
Success == {"SQLITE_OK", "SQLITE_ROW", "SQLITE_DONE"}

Return == [printed |-> FALSE, how |-> "return"]
PrintAndExit == [printed |-> TRUE, how |-> "exit"]
Throw == [printed |-> FALSE, how |-> "throw"]

\* main1 has no try block; the other callers catch what a helper throws.
catches == harness # "main1"

\* lastCall and anyFailure are the record of main1's calls; the other
\* harnesses keep none.
Finish(helper, rc, o) ==
  /\ lastCall' = IF harness = "main1"
                 THEN [helper |-> helper, rc |-> rc, printed |-> o.printed, how |-> o.how]
                 ELSE lastCall
  /\ anyFailure' = IF harness = "main1" THEN (anyFailure \/ rc \notin Success)
                   ELSE anyFailure
  /\ proc' = CASE o.how = "exit" -> "exit_failure"
               [] o.how = "throw" /\ ~catches -> "terminated"
               [] OTHER -> proc
  /\ harness' = harness

\* if (rc != SQLITE_OK) { std::cerr << ...; sqlite3_free(errmsg); std::exit(EXIT_FAILURE); }
execute_outcome(rc) == IF rc # "SQLITE_OK" THEN PrintAndExit ELSE Return

\* void execute (not_null<sqlite3*> db, const char* sql)
execute(sql) ==
  \E rc \in sqlite3_exec_rcs(sql) :
    /\ sqlite3_exec(sql, rc)
    /\ Finish("execute", rc, execute_outcome(rc))

(***************************************************************************)
(* struct Transaction                                                      *)
(***************************************************************************)
NoneIssued == [ctor |-> <<>>, commit |-> <<>>, dtor |-> <<>>]

TxInit ==
  /\ tstate = [g \in Guards |-> "unborn"]
  /\ _db = [g \in Guards |-> nullptr]
  /\ ctorKind = [g \in Guards |-> "none"]
  /\ root = [g \in Guards |-> g]
  /\ movedFrom = [g \in Guards |-> FALSE]
  /\ commitCalled = [g \in Guards |-> FALSE]
  /\ issued = [g \in Guards |-> NoneIssued]
  /\ ended = [g \in Guards |-> 0]

\* Transaction(not_null<sqlite3*> db) : _db{db} { execute(_db, "BEGIN TRANSACTION;") ; }
Transaction_ctor(ins) ==
  /\ Calls(ins, "Transaction") /\ tstate[ins.g] = "unborn"
  /\ execute(BeginSql)
  /\ tstate' = [tstate EXCEPT ![ins.g] = IF proc' = "running" THEN "live" ELSE @]
  /\ _db' = [_db EXCEPT ![ins.g] = dbptr]
  /\ ctorKind' = [ctorKind EXCEPT ![ins.g] = "db"]
  /\ issued' = [issued EXCEPT ![ins.g].ctor = <<BeginSql>>]
  /\ Advance
  /\ UNCHANGED <<root, movedFrom, commitCalled, ended, txOthers>>

\* ~Transaction() { if(_db) execute(_db, "ROLLBACK TRANSACTION;") ; }
Transaction_dtor(ins) ==
  /\ Calls(ins, "~Transaction") /\ tstate[ins.g] = "live"
  /\ IF _db[ins.g] # nullptr
     THEN /\ execute(RollbackSql)
          /\ issued' = [issued EXCEPT ![ins.g].dtor = <<RollbackSql>>]
          /\ ended' = [ended EXCEPT ![root[ins.g]] = @ + 1]
     ELSE UNCHANGED <<procVars, engVars, issued, ended>>
  /\ tstate' = [tstate EXCEPT ![ins.g] = "dead"]
  /\ Advance
  /\ UNCHANGED <<_db, ctorKind, root, movedFrom, commitCalled, txOthers>>

\* A commit that leaves _db set.
commit_keeps_db(p) == p

\* _db = nullptr ;   (the last statement of commit())
commit_clears_db(p) == nullptr

\* void commit() { if(_db) execute(_db, "COMMIT TRANSACTION;") ; _db = nullptr ; }
Transaction_commit(ins) ==
  /\ Calls(ins, "commit") /\ tstate[ins.g] = "live"
  /\ IF _db[ins.g] # nullptr
     THEN /\ execute(CommitSql)
          /\ issued' = [issued EXCEPT ![ins.g].commit = Append(@, CommitSql)]
          /\ ended' = [ended EXCEPT ![root[ins.g]] = @ + 1]
     ELSE UNCHANGED <<procVars, engVars, issued, ended>>
  /\ _db' = [_db EXCEPT ![ins.g] = IF proc' = "running" THEN commit_clears_db(@) ELSE @]
  /\ commitCalled' = [commitCalled EXCEPT ![ins.g] = TRUE]
  /\ Advance
  /\ UNCHANGED <<tstate, ctorKind, root, movedFrom, txOthers>>

\* Transaction (Transaction&&) = default ;   the pointer member is copied and
\* the source keeps its value.
Transaction_move(ins) ==
  /\ Calls(ins, "Transaction&&")
  /\ tstate[ins.h] = "unborn" /\ tstate[ins.g] = "live"
  /\ tstate' = [tstate EXCEPT ![ins.h] = "live"]
  /\ _db' = [_db EXCEPT ![ins.h] = _db[ins.g]]
  /\ ctorKind' = [ctorKind EXCEPT ![ins.h] = "move"]
  /\ root' = [root EXCEPT ![ins.h] = root[ins.g]]
  /\ movedFrom' = [movedFrom EXCEPT ![ins.g] = TRUE]
  /\ Advance
  /\ UNCHANGED <<commitCalled, issued, ended, procVars, engVars, txOthers>>

(***************************************************************************)
(* open_database, create_statement and the unique_ptr handles              *)
(***************************************************************************)
stOthers == <<nnVars, txVars, runVars>>

open_database_outcome(rc) == IF rc # "SQLITE_OK" THEN PrintAndExit ELSE Return

\* database open_database(const char* name): on a failure it prints, closes
\* the handle sqlite3_open left behind and exits.
open_database(ins) ==
  /\ Calls(ins, "open_database")
  /\ \E rc \in {"SQLITE_OK", "SQLITE_CANTOPEN"} :
       /\ conn' = IF rc = "SQLITE_OK" THEN "open" ELSE "closed"
       /\ closes' = IF rc = "SQLITE_OK" THEN closes
                    ELSE Append(closes, [rc |-> "SQLITE_OK", prepared |-> 0])
       /\ Finish("open_database", rc, open_database_outcome(rc))
  /\ Advance
  /\ UNCHANGED <<misuse, inTxn, table, saved, stVars, stOthers>>

\* execute(db, sql) called by main1 or create_things2 itself
execute_call(ins) ==
  /\ Calls(ins, "execute")
  /\ execute(ins.s)
  /\ Advance
  /\ UNCHANGED <<stVars, stOthers>>

\* sqlite3_prepare_v2 of a statement on the table things
sqlite3_prepare_rcs ==
  IF conn # "open" THEN {"SQLITE_MISUSE"}
  ELSE IF ~table.exists THEN {"SQLITE_ERROR"}
  ELSE {"SQLITE_OK", "SQLITE_NOMEM"}

create_statement_outcome(rc) == IF rc # "SQLITE_OK" THEN PrintAndExit ELSE Return

\* statement create_statement(not_null<sqlite3*> db, const std::string& sql)
create_statement(ins) ==
  /\ Calls(ins, "create_statement")
  /\ \E rc \in sqlite3_prepare_rcs :
       /\ stmtState' = IF rc = "SQLITE_OK"
                       THEN [stmtState EXCEPT ![ins.s] = "prepared"] ELSE stmtState
       /\ Finish("create_statement", rc, create_statement_outcome(rc))
  /\ misuse' = (misuse \/ conn # "open")
  /\ Advance
  /\ UNCHANGED <<engVars, finalizeCount, bound, cursor, done, stOthers>>

\* ~statement: unique_ptr calls its deleter sqlite3_finalize on a non-null
\* pointer.
statement_dtor(ins) ==
  /\ Calls(ins, "~unique_ptr") /\ ins.s \in Stmts
  /\ IF stmtState[ins.s] = "none"
     THEN UNCHANGED <<stmtState, finalizeCount, misuse>>
     ELSE /\ stmtState' = [stmtState EXCEPT ![ins.s] = "finalized"]
          /\ finalizeCount' = [finalizeCount EXCEPT ![ins.s] = @ + 1]
          /\ misuse' = (misuse \/ stmtState[ins.s] # "prepared" \/ conn # "open")
  /\ Advance
  /\ UNCHANGED <<proc, harness, lastCall, anyFailure, engVars, bound, cursor, done,
                 stOthers>>

\* ~database: unique_ptr calls its deleter sqlite3_close on a non-null
\* pointer; the engine refuses (SQLITE_BUSY) to close a connection that still
\* has prepared statements, and nobody reads what the deleter returns.
database_dtor(ins) ==
  /\ Calls(ins, "~unique_ptr") /\ ins.s = "db"
  /\ IF conn = "none"
     THEN UNCHANGED <<conn, closes, misuse>>
     ELSE LET prepared == Cardinality({s \in Stmts : stmtState[s] = "prepared"})
              rc == IF prepared > 0 THEN "SQLITE_BUSY" ELSE "SQLITE_OK"
          IN /\ closes' = Append(closes, [rc |-> rc, prepared |-> prepared])
             /\ conn' = IF rc = "SQLITE_OK" THEN "closed" ELSE conn
             /\ misuse' = (misuse \/ conn # "open")
  /\ Advance
  /\ UNCHANGED <<proc, harness, lastCall, anyFailure, inTxn, table, saved, stVars,
                 stOthers>>

\* main1 returns to main, which returns 0.
main1_return(ins) ==
  /\ Calls(ins, "return")
  /\ proc' = "returned"
  /\ Advance
  /\ UNCHANGED <<harness, lastCall, anyFailure, misuse, engVars, stVars, stOthers>>

(***************************************************************************)
(* parameter: the three overloads                                          *)
(***************************************************************************)
\* value.c_str(): the bytes and the terminating NUL
c_str(t) == t \o <<NUL>>

\* A length that counts the terminating NUL as well.
size_with_nul(t) == Len(t) + 1

\* value.size()
size(t) == Len(t)

\* The engine keeps what it is given; of a text it copies the first n bytes
\* of the buffer (SQLITE_TRANSIENT).
sqlite3_bind_int64(v) == IntCell(v)
sqlite3_bind_double(d) == FloatCell(d)
sqlite3_bind_text(buf, n) == TextCell(SubSeq(buf, 1, n))

sqlite3_bind_rcs(s, i) ==
  IF stmtState[s] # "prepared" THEN {"SQLITE_MISUSE"}
  ELSE IF i \notin Params THEN {"SQLITE_RANGE"}
  ELSE {"SQLITE_OK", "SQLITE_NOMEM"}

\* if (rc != SQLITE_OK) throw "TODO" ;
parameter_outcome(rc) == IF rc # "SQLITE_OK" THEN Throw ELSE Return

Bind(ins, cell) ==
  /\ \E rc \in sqlite3_bind_rcs(ins.s, ins.i) :
       /\ bound' = IF rc = "SQLITE_OK"
                   THEN [bound EXCEPT ![ins.i] = [cell |-> cell, src |-> ins.v]]
                   ELSE bound
       /\ Finish("parameter", rc, parameter_outcome(rc))
  /\ misuse' = (misuse \/ stmtState[ins.s] # "prepared")
  /\ Advance
  /\ UNCHANGED <<engVars, stmtState, finalizeCount, cursor, done, stOthers>>

\* void parameter(not_null<sqlite3_stmt*> stmt, int index, int64_t value)
parameter_int64(ins) ==
  Calls(ins, "parameter") /\ ins.v.type = "int" /\ Bind(ins, sqlite3_bind_int64(ins.v.i))

\* void parameter(not_null<sqlite3_stmt*> stmt, int index, double value)
parameter_double(ins) ==
  Calls(ins, "parameter") /\ ins.v.type = "float" /\ Bind(ins, sqlite3_bind_double(ins.v.f))

\* sqlite3_bind_text (stmt.get(), index, value.c_str (), value.size (), SQLITE_TRANSIENT)
bind_string(t) == sqlite3_bind_text(c_str(t), size(t))

\* void parameter(not_null<sqlite3_stmt*> stmt, int index, const std::string& value)
parameter_text(ins) ==
  Calls(ins, "parameter") /\ ins.v.type = "text" /\ Bind(ins, bind_string(ins.v.t))

(***************************************************************************)
(* The engine: sqlite3_step and sqlite3_reset on the two statements,       *)
(* INSERT INTO things VALUES(@id,@name,@value) and SELECT * FROM things.   *)
(***************************************************************************)
IdsIn(rows) == {rows[k].cells[1].i : k \in 1..Len(rows)}

\* id INTEGER PRIMARY KEY: the bound integer, or the next free id for NULL
NewId ==
  IF bound[1].cell.type = "int" THEN bound[1].cell.i
  ELSE IF table.rows = <<>> THEN 1
  ELSE 1 + table.rows[Len(table.rows)].cells[1].i

\* The row an INSERT adds: the bound cells (a text that is no number stays a
\* text in the REAL column), and beside them what the caller passed.
NewRow ==
  [cells |-> <<IntCell(NewId), bound[2].cell, bound[3].cell>>,
   src |-> <<bound[1].src, bound[2].src, bound[3].src>>]

\* The rows are kept, and a SELECT yields them, in id order.
InsertSorted(rows, r) ==
  LET n == Cardinality({k \in 1..Len(rows) : rows[k].cells[1].i < r.cells[1].i})
  IN SubSeq(rows, 1, n) \o <<r>> \o SubSeq(rows, n + 1, Len(rows))

\* Where s stands: a statement stepped again after SQLITE_DONE starts over.
Pos(s) == IF done[s] THEN 0 ELSE cursor[s]

sqlite3_step_rcs(s) ==
  IF stmtState[s] # "prepared" \/ conn # "open" THEN {"SQLITE_MISUSE"}
  ELSE IF ~table.exists THEN {"SQLITE_ERROR"}
  ELSE IF s = "add_thing" THEN
    IF NewId \in IdsIn(table.rows) THEN {"SQLITE_CONSTRAINT"}
    ELSE {"SQLITE_DONE", "SQLITE_IOERR"}
  ELSE IF Pos(s) < Len(table.rows) THEN {"SQLITE_ROW", "SQLITE_IOERR"}
  ELSE {"SQLITE_DONE", "SQLITE_IOERR"}

sqlite3_step(s, rc) ==
  /\ misuse' = (misuse \/ stmtState[s] # "prepared" \/ conn # "open")
  /\ cursor' = IF rc = "SQLITE_ROW" THEN [cursor EXCEPT ![s] = Pos(s) + 1] ELSE cursor
  /\ done' = [done EXCEPT ![s] = (rc = "SQLITE_DONE")]
  /\ table' = IF rc = "SQLITE_DONE" /\ s = "add_thing"
              THEN [table EXCEPT !.rows = InsertSorted(@, NewRow)] ELSE table
  /\ saved' = IF inTxn THEN saved ELSE table'
  /\ UNCHANGED <<conn, closes, inTxn>>

sqlite3_reset(s) ==
  /\ cursor' = [cursor EXCEPT ![s] = 0]
  /\ done' = [done EXCEPT ![s] = FALSE]

(***************************************************************************)
(* Column accessors and callbacks.  row is the row the statement stands    *)
(* on; a pointer to text is the sequence of its bytes and the NUL, the     *)
(* null pointer is the empty sequence.                                     *)
(***************************************************************************)
sqlite3_column_count == 3
sqlite3_column_type(c) == c.type
sqlite3_column_int64(c) == IF c.type = "int" THEN c.i ELSE 0
sqlite3_column_double(c) ==
  IF c.type = "float" THEN c.f ELSE IF c.type = "int" THEN c.i ELSE 0
sqlite3_column_text(c) == IF c.type = "text" THEN c.t \o <<NUL>> ELSE <<>>
sqlite3_column_bytes(c) == IF c.type = "text" THEN Len(c.t) ELSE 0

\* s > 0 ? std::string (first, s) : std::string{}
string_of(first, s) == IF s > 0 THEN SubSeq(first, 1, s) ELSE <<>>

\* int64_t key(not_null<sqlite3_stmt*> stmt)
key(row) == sqlite3_column_int64(row.cells[1])

\* std::string value(not_null<sqlite3_stmt*> stmt)
value(row) ==
  string_of(sqlite3_column_text(row.cells[2]), sqlite3_column_bytes(row.cells[2]))

\* bool dump_current_row(not_null<sqlite3_stmt*> stmt): what it prints
dump_current_row(row) ==
  [i \in 1..sqlite3_column_count |->
    LET c == row.cells[i]
        columntype == sqlite3_column_type(c)
    IN CASE columntype = "null" -> Null
         [] columntype = "int" -> IntCell(sqlite3_column_int64(c))
         [] columntype = "float" -> FloatCell(sqlite3_column_double(c))
         [] columntype = "text" ->
              TextCell(string_of(sqlite3_column_text(c), sqlite3_column_bytes(c)))]

\* bool print_thing(not_null<sqlite3_stmt*> stmt): what it prints
print_thing(row) ==
  LET id == sqlite3_column_int64(row.cells[1])
      name == string_of(sqlite3_column_text(row.cells[2]),
                        sqlite3_column_bytes(row.cells[2]))
      val == sqlite3_column_double(row.cells[3])
  IN <<IntCell(id), TextCell(name), FloatCell(val)>>

\* A caller's stmt_callback that reads the row with key, value and
\* sqlite3_column_double and then answers as it likes.
read_thing(row) ==
  <<IntCell(key(row)), TextCell(value(row)),
    FloatCell(sqlite3_column_double(row.cells[3]))>>

\* using stmt_callback = std::function<bool(not_null<sqlite3_stmt*>)>
callback(cb, row) ==
  CASE cb = "dump_current_row" -> dump_current_row(row)
    [] cb = "print_thing" -> print_thing(row)
    [] cb = "read_thing" -> read_thing(row)

\* dump_current_row and print_thing return true; another callback may return
\* false or throw.
callback_returns(cb) ==
  IF cb = "read_thing" THEN {"true", "false", "throw"} ELSE {"true"}

(***************************************************************************)
(* run  (sample1.cpp 145-164)                                              *)
(***************************************************************************)
NoHist ==
  [yielded |-> <<>>,         \* the rows the engine yielded, in order
   calls |-> <<>>,           \* the rows the callback was invoked on, in order
   stopped |-> FALSE,        \* SQLITE_DONE was seen or the callback said false
   late |-> FALSE,           \* the statement was stepped after that
   resets |-> 0,             \* sqlite3_reset calls
   steppedAfterReset |-> FALSE,
   end |-> "",               \* why the loop ended
   ran |-> FALSE,            \* a call of run was left before
   cut |-> FALSE]            \* and one of them before SQLITE_DONE

\* A reset_guard that lives only for its own statement.
reset_guard_is_a_temporary == "statement"

\* auto reset = reset_guard (stmt.get(), &sqlite3_reset): a named local, so
\* its deleter runs when run is left, by return or by an exception.
reset_guard_lifetime == "run"

\* A step_next that goes on whatever the callback returns.
step_next_ignores_false(rc, hasCallback, ret) ==
  rc = "SQLITE_ROW" /\ hasCallback

\* auto step_next = [&](int rc){ ... }: ret is what callback(stmt) returned
step_next(rc, hasCallback, ret) ==
  IF rc = "SQLITE_OK" \/ rc = "SQLITE_DONE" THEN FALSE
  ELSE IF rc = "SQLITE_ROW" /\ hasCallback THEN ret
  ELSE FALSE

\* run handles no result code of sqlite3_step: it leaves the loop and
\* returns; what its callback throws passes through it.
step_outcome(rc, threw) == IF threw THEN Throw ELSE Return

\* run is entered: the reset guard is built.
run_enter(ins) ==
  /\ Calls(ins, "run")
  /\ rpc' = "loop"
  /\ rstmt' = ins.s
  /\ rcb' = ins.cb
  /\ out' = <<>>
  /\ IF reset_guard_lifetime = "run"
     THEN /\ rhist' = [NoHist EXCEPT !.ran = rhist.ran, !.cut = rhist.cut]
          /\ UNCHANGED <<cursor, done>>
     ELSE /\ rhist' = [NoHist EXCEPT !.ran = rhist.ran, !.cut = rhist.cut, !.resets = 1]
          /\ sqlite3_reset(ins.s)
  /\ UNCHANGED <<procVars, engVars, stmtState, finalizeCount, bound, nnVars, txVars, pc>>

\* while(step_next(sqlite3_step(stmt))) ;   one turn of the loop
run_step ==
  /\ proc = "running" /\ rpc = "loop"
  /\ \E rc \in sqlite3_step_rcs(rstmt), ret \in callback_returns(rcb) :
       LET invoked == rc = "SQLITE_ROW" /\ rcb # "none"
           threw == invoked /\ ret = "throw"
           pos == Pos(rstmt) + 1
           again == ~threw /\ step_next(rc, rcb # "none", ret = "true")
       IN /\ invoked \/ ret = "true"
          /\ sqlite3_step(rstmt, rc)
          /\ out' = IF invoked
                    THEN Append(out, [cb |-> rcb, cols |-> callback(rcb, table.rows[pos]),
                                      src |-> table.rows[pos].src])
                    ELSE out
          /\ rhist' = [rhist EXCEPT
                 !.yielded = IF rc = "SQLITE_ROW" THEN Append(@, pos) ELSE @,
                 !.calls = IF invoked THEN Append(@, pos) ELSE @,
                 !.late = @ \/ rhist.stopped,
                 !.stopped = @ \/ rc = "SQLITE_DONE" \/ (invoked /\ ret = "false"),
                 !.steppedAfterReset = @ \/ rhist.resets > 0,
                 !.end = CASE again -> ""
                           [] threw -> "throw"
                           [] invoked -> "false"
                           [] rc = "SQLITE_ROW" -> "no callback"
                           [] rc = "SQLITE_DONE" -> "done"
                           [] OTHER -> "error"]
          /\ rpc' = IF again THEN "loop" ELSE "exit"
          /\ Finish("run", rc, step_outcome(rc, threw))
  /\ UNCHANGED <<stmtState, finalizeCount, bound, rstmt, rcb, nnVars, txVars, pc>>

\* What is remembered of a call of run once it is over.
Left(h) == [NoHist EXCEPT !.resets = h.resets, !.steppedAfterReset = h.steppedAfterReset,
                          !.late = h.late, !.ran = TRUE,
                          !.cut = h.cut \/ h.end # "done"]

\* run is left: the reset guard is destroyed.
run_leave ==
  /\ proc = "running" /\ rpc = "exit"
  /\ rpc' = "idle"
  /\ rcb' = "none"
  /\ out' = <<>>
  /\ IF reset_guard_lifetime = "run"
     THEN /\ sqlite3_reset(rstmt)
          /\ rhist' = Left([rhist EXCEPT !.resets = @ + 1])
     ELSE /\ UNCHANGED <<cursor, done>>
          /\ rhist' = Left(rhist)
  /\ Advance
  /\ UNCHANGED <<procVars, engVars, stmtState, finalizeCount, bound, rstmt,
                 nnVars, txVars>>

(***************************************************************************)
(* Specifications                                                          *)
(***************************************************************************)
ProcInit(h) ==
  /\ proc = "running"
  /\ harness = h
  /\ lastCall = [helper |-> "none", rc |-> "SQLITE_OK", printed |-> FALSE, how |-> "return"]
  /\ anyFailure = FALSE
  /\ misuse = FALSE

\* The engine after open_database and CREATE TABLE things.
EngOpen ==
  /\ conn = "open"
  /\ closes = <<>>
  /\ inTxn = FALSE
  /\ table = [exists |-> TRUE, rows |-> <<>>]
  /\ saved = [exists |-> TRUE, rows |-> <<>>]

StInit(st) ==
  /\ stmtState = [s \in Stmts |-> st]
  /\ finalizeCount = [s \in Stmts |-> 0]
  /\ bound = [i \in Params |-> [cell |-> Null, src |-> Null]]
  /\ cursor = [s \in Stmts |-> 0]
  /\ done = [s \in Stmts |-> FALSE]

RunInit ==
  /\ rpc = "idle"
  /\ rstmt = "stmt"
  /\ rcb = "none"
  /\ rhist = NoHist
  /\ out = <<>>

\* not_null objects under every sequence of their operations.
InitNotNull ==
  /\ NNInit /\ ProcInit("not_null") /\ EngOpen /\ TxInit /\ StInit("none") /\ RunInit
  /\ pc = 0

SpecNotNull == InitNotNull /\ [][NNNext]_vars

TxNext ==
  \/ \E ins \in Callable : Transaction_ctor(ins)
  \/ \E ins \in Callable : Transaction_commit(ins)
  \/ \E ins \in Callable : Transaction_dtor(ins)
  \/ \E ins \in Callable : Transaction_move(ins)

\* Transaction guards on an open database, under every order of
\* construction, move, commit and destruction.
InitTxn ==
  /\ NNInit /\ ProcInit("guards") /\ EngOpen /\ TxInit /\ StInit("none") /\ RunInit
  /\ pc = 0

SpecTxn == InitTxn /\ [][TxNext]_vars

\* main1 from its first call to its return or to the end of the process.
InitMain ==
  /\ NNInit /\ ProcInit("main1") /\ TxInit /\ StInit("none") /\ RunInit
  /\ conn = "none"
  /\ closes = <<>>
  /\ inTxn = FALSE
  /\ table = [exists |-> FALSE, rows |-> <<>>]
  /\ saved = [exists |-> FALSE, rows |-> <<>>]
  /\ pc = 1

MainNext ==
  \/ \E ins \in Callable : open_database(ins)
  \/ \E ins \in Callable : execute_call(ins)
  \/ \E ins \in Callable : create_statement(ins)
  \/ \E ins \in Callable : parameter_int64(ins)
  \/ \E ins \in Callable : parameter_double(ins)
  \/ \E ins \in Callable : parameter_text(ins)
  \/ \E ins \in Callable : run_enter(ins)
  \/ run_step
  \/ run_leave
  \/ \E ins \in Callable : Transaction_ctor(ins)
  \/ \E ins \in Callable : Transaction_commit(ins)
  \/ \E ins \in Callable : Transaction_dtor(ins)
  \/ \E ins \in Callable : statement_dtor(ins)
  \/ \E ins \in Callable : database_dtor(ins)
  \/ \E ins \in Callable : main1_return(ins)

SpecMain == InitMain /\ [][MainNext]_vars

\* The two rows main1 has inserted when it prepares its SELECT.
RowOf(id, name, val) ==
  [cells |-> <<sqlite3_bind_int64(id.i), bind_string(name.t),
               IF val.type = "text" THEN bind_string(val.t) ELSE sqlite3_bind_double(val.f)>>,
   src |-> <<id, name, val>>]

\* A client of the helpers, from the state main1 is in after it has prepared
\* its SELECT: the database open, both statements prepared, two rows stored.
InitClient ==
  /\ NNInit /\ ProcInit("client") /\ TxInit /\ RunInit
  /\ conn = "open"
  /\ closes = <<>>
  /\ inTxn = FALSE
  /\ table = [exists |-> TRUE,
              rows |-> << RowOf(IntCell(0), TextCell(<<>>), FloatCell(0)),
                          RowOf(IntCell(1), TextCell(text_first), TextCell(text_second)) >>]
  /\ saved = table
  /\ stmtState = [s \in Stmts |-> "prepared"]
  /\ finalizeCount = [s \in Stmts |-> 0]
  /\ bound = [i \in Params |->
               LET r == RowOf(IntCell(1), TextCell(text_first), TextCell(text_second))
               IN [cell |-> r.cells[i], src |-> r.src[i]]]
  /\ cursor = [s \in Stmts |-> 0]
  /\ done = [s \in Stmts |-> FALSE]
  /\ pc = 0

ClientNext ==
  \/ \E ins \in Callable : parameter_int64(ins)
  \/ \E ins \in Callable : parameter_double(ins)
  \/ \E ins \in Callable : parameter_text(ins)
  \/ \E ins \in Callable : run_enter(ins)
  \/ run_step
  \/ run_leave
  \/ \E ins \in Callable : Transaction_ctor(ins)
  \/ \E ins \in Callable : Transaction_commit(ins)
  \/ \E ins \in Callable : Transaction_dtor(ins)

SpecClient == InitClient /\ [][ClientNext]_vars

(***************************************************************************)
(* Claims about not_null                                                   *)
(***************************************************************************)

\* C2: constructing a not_null from a null pointer value always raises
\* "Ensure failed" and leaves no object behind; constructing from a non-null
\* value raises nothing and the new object holds exactly that value.
C2_CtorRejectsNull ==
  lastOp.op = "ctor" =>
    /\ lastOp.arg = nullptr => (thrown = "Ensure failed" /\ ~live[lastOp.obj])
    /\ lastOp.arg # nullptr =>
         (thrown = "none" /\ live[lastOp.obj] /\ get(lastOp.obj) = lastOp.arg)

\* C2 witness: a construction from nullptr has just been rejected while
\* another object, built from a non-null value, is alive.
C2_Witness ==
  /\ lastOp.op = "ctor" /\ lastOp.arg = nullptr /\ thrown = "Ensure failed"
  /\ \E o \in Objs : live[o] /\ get(o) # nullptr

\* C3: get() of every live not_null object returns a non-null value, after
\* any sequence of constructions and assignments, a caught failing
\* assignment of a null value included.
C3_OnlyNonNull == \A o \in Objs : live[o] => get(o) # nullptr

(***************************************************************************)
(* Claims about the Transaction guard                                      *)
(***************************************************************************)

\* C1: a guard constructed on a database issued BEGIN TRANSACTION; its
\* destruction issues ROLLBACK TRANSACTION if and only if commit() was not
\* called on it, and after commit() its destruction issues no statement.
C1_RollbackUnlessCommitted ==
  \A g \in Guards :
    (ctorKind[g] = "db" /\ tstate[g] = "dead") =>
      /\ issued[g].ctor = <<BeginSql>>
      /\ (issued[g].dtor = <<RollbackSql>>) <=> ~commitCalled[g]
      /\ commitCalled[g] => issued[g].dtor = <<>>

\* C1 witness: one guard was committed and then destroyed without issuing
\* anything, another was destroyed uncommitted and issued its ROLLBACK.
C1_Witness ==
  \E g, h \in Guards :
    /\ ctorKind[g] = "db" /\ tstate[g] = "dead" /\ commitCalled[g]
    /\ issued[g].commit = <<CommitSql>> /\ issued[g].dtor = <<>>
    /\ ctorKind[h] = "db" /\ tstate[h] = "dead" /\ ~commitCalled[h]
    /\ issued[h].dtor = <<RollbackSql>>

\* C8: every BEGIN TRANSACTION of a guard is ended by at most one COMMIT or
\* ROLLBACK over the guard and the guards move-constructed from it, and the
\* destruction of a moved-from guard issues no statement.
C8_OneEndPerBegin ==
  /\ \A r \in Guards : ctorKind[r] = "db" => ended[r] <= 1
  /\ \A g \in Guards :
       (tstate[g] = "dead" /\ movedFrom[g]) => issued[g].dtor = <<>>

(***************************************************************************)
(* Claims about run and parameter                                          *)
(***************************************************************************)

\* C4: given a callback, run invokes it exactly once on each row the engine
\* yields, in that order, and steps the statement no more once the engine
\* reported completion or the callback returned false.
C4_ForwardsEachRowUntilStop ==
  /\ rcb # "none" => rhist.calls = rhist.yielded
  /\ ~rhist.late
  /\ rhist.stopped => rpc # "loop"

\* C4 witness: the callback took the first row, returned false on the second
\* and run left its loop with a third row still to come.
C4_Witness ==
  /\ rpc = "exit" /\ rcb = "read_thing" /\ rhist.end = "false"
  /\ rhist.calls = <<1, 2>> /\ Len(table.rows) = 3

\* C6: a 64-bit integer bound as the id, a text bound as the name and a
\* double bound as the value of an inserted row are what key,
\* value and sqlite3_column_double return when a SELECT reads that row;
\* the empty text reads back empty.
C6_BoundValuesReadBack ==
  \A k \in 1..Len(out) :
    out[k].cb = "read_thing" =>
      /\ out[k].src[1].type = "int" => out[k].cols[1] = out[k].src[1]
      /\ out[k].src[2].type = "text" => out[k].cols[2] = out[k].src[2]
      /\ out[k].src[3].type = "float" => out[k].cols[3] = out[k].src[3]

\* C6 witness: the row with id 2, bound with the empty text and a double,
\* inserted and committed by the client, is read back with an empty name.
C6_Witness ==
  /\ ~inTxn /\ saved = table /\ issued[1].commit = <<CommitSql>>
  /\ \E k \in 1..Len(out) :
       /\ out[k].cb = "read_thing"
       /\ out[k].src = <<IntCell(2), TextCell(<<>>), FloatCell(1)>>
       /\ out[k].cols = out[k].src

\* C9: run resets its statement exactly once when it is left, however its
\* loop ended, and not before its last step; so between calls of run every
\* statement stands before its first row, and a run that reaches
\* SQLITE_DONE has forwarded the whole result set from the first row on.
C9_ResetOnceOnLeaving ==
  /\ rpc # "idle" => rhist.resets = 0
  /\ ~rhist.steppedAfterReset
  /\ (rpc = "idle" /\ rhist.ran) => rhist.resets = 1
  /\ rpc = "idle" => \A s \in Stmts : cursor[s] = 0 /\ ~done[s]
  /\ (rpc = "exit" /\ rcb # "none" /\ rhist.end = "done") =>
       rhist.calls = [k \in 1..Len(table.rows) |-> k]

\* C9 witness: after an earlier run was left before SQLITE_DONE, a run of
\* the SELECT has forwarded all three rows.
C9_Witness ==
  /\ rpc = "exit" /\ rstmt = "stmt" /\ rcb = "read_thing"
  /\ rhist.cut /\ rhist.end = "done" /\ rhist.calls = <<1, 2, 3>>

(***************************************************************************)
(* Claims about main1                                                      *)
(***************************************************************************)

\* C5: every helper (open_database, execute, create_statement, parameter,
\* run) answers a non-success result code of the engine by printing a
\* message and ending the process with a failure status; it neither returns
\* nor throws.
C5_AllPrintAndExit ==
  lastCall.rc \notin Success =>
    lastCall.printed /\ lastCall.how = "exit" /\ proc = "exit_failure"

\* C7: on a failure-free execution of main1 no handle is used after its
\* release, and when main1 has returned each statement was finalized exactly
\* once, before the one successful sqlite3_close of the connection.
C7_HandlesReleasedOnceInOrder ==
  /\ ~anyFailure => ~misuse
  /\ (proc = "returned" /\ ~anyFailure) =>
       /\ conn = "closed"
       /\ closes = <<[rc |-> "SQLITE_OK", prepared |-> 0]>>
       /\ \A s \in Stmts : stmtState[s] = "finalized" /\ finalizeCount[s] = 1

\* C7 witness: main1 has returned from a failure-free execution that stored
\* its two rows.
C7_Witness ==
  proc = "returned" /\ ~anyFailure /\ conn = "closed" /\ Len(table.rows) = 2

====
